---- MODULE Spec2Model ----
(***************************************************************************)
(* Detection service: POST /detect and POST /protect classify a prompt     *)
(* into the enabled compliance topics with a remote chat-completion call   *)
(* and a keyword fallback, and record every decision in the audit log.     *)
(*                                                                         *)
(* Text is a sequence of one-character strings, so that lower-casing and   *)
(* substring search are computed and not assumed.  A remote reply is the   *)
(* outcome of the chat-completion call: an exception, or a completion      *)
(* whose content is described by what json.loads makes of it.              *)
(***************************************************************************)
EXTENDS Integers, Sequences, FiniteSets, TLC

(***************************************************************************)
(* Bounds of the model.                                                    *)
(***************************************************************************)
\* requests the server receives in one behaviour
MaxRequests == 2
\* appends made to the audit store on its own
MaxAppends == 4
\* ticks of the wall clock
MaxClock == 2
\* capacity of the in-memory audit store (settings.audit_log_size)
MaxEntries == 2
\* longest detected_topics value in a remote reply
MaxItems == 2

(***************************************************************************)
(* models.py: topics and settings.                                         *)
(***************************************************************************)
TopicName == {"health", "finance", "legal", "hr"}

Catalog == <<"health", "finance", "legal", "hr">>

DetectionSettings == [health : BOOLEAN, finance : BOOLEAN, legal : BOOLEAN, hr : BOOLEAN]

enabled_topics(settings) ==
    LET e0 == <<>>
        e1 == IF settings.health THEN Append(e0, "health") ELSE e0
        e2 == IF settings.finance THEN Append(e1, "finance") ELSE e1
        e3 == IF settings.legal THEN Append(e2, "legal") ELSE e2
        e4 == IF settings.hr THEN Append(e3, "hr") ELSE e3
    IN e4

Range(s) == {s[i] : i \in 1..Len(s)}

(***************************************************************************)
(* Text.                                                                   *)
(***************************************************************************)
UpperAlpha ==
    <<"A","B","C","D","E","F","G","H","I","J","K","L","M","N","O","P","Q","R","S","T","U","V","W","X","Y","Z">>

LowerAlpha ==
    <<"a","b","c","d","e","f","g","h","i","j","k","l","m","n","o","p","q","r","s","t","u","v","w","x","y","z">>

LowerChar(c) ==
    IF \E i \in 1..26 : UpperAlpha[i] = c
    THEN LowerAlpha[CHOOSE i \in 1..26 : UpperAlpha[i] = c]
    ELSE c

\* str.lower()
lower(text) == [i \in 1..Len(text) |-> LowerChar(text[i])]

\* keyword in lowered
Contains(keyword, text) ==
    \E i \in 1..(Len(text) - Len(keyword) + 1) :
        SubSeq(text, i, i + Len(keyword) - 1) = keyword

\* the default hints of DetectionService.__init__ (main.py passes none)
keyword_hints(topic) ==
    CASE topic = "health" ->
           << <<"h","e","a","l","t","h">>,
              <<"m","e","d","i","c","a","l">>,
              <<"d","o","c","t","o","r">>,
              <<"d","i","s","e","a","s","e">>,
              <<"t","h","e","r","a","p","y">> >>
      [] topic = "finance" ->
           << <<"b","a","n","k">>,
              <<"i","n","v","e","s","t">>,
              <<"l","o","a","n">>,
              <<"b","u","d","g","e","t">>,
              <<"p","o","r","t","f","o","l","i","o">> >>
      [] topic = "legal" ->
           << <<"l","a","w">>,
              <<"c","o","n","t","r","a","c","t">>,
              <<"r","e","g","u","l","a","t","i","o","n">>,
              <<"c","o","u","r","t">>,
              <<"c","o","m","p","l","i","a","n","c","e">> >>
      [] topic = "hr" ->
           << <<"h","i","r","e">>,
              <<"p","a","y","r","o","l","l">>,
              <<"e","m","p","l","o","y","e","e">>,
              <<"t","e","r","m","i","n","a","t","i","o","n">>,
              <<"r","e","c","r","u","i","t">> >>
      [] OTHER -> <<>>

\* "Bank LAW"
PromptBankLaw == <<"B","a","n","k"," ","L","A","W">>
\* "weather"
PromptWeather == <<"w","e","a","t","h","e","r">>
\* "401k investments"
PromptInvest == <<"4","0","1","k"," ","i","n","v","e","s","t","m","e","n","t","s">>
\* "doctor contract"
PromptDoctor == <<"d","o","c","t","o","r"," ","c","o","n","t","r","a","c","t">>
\* "Hire"
PromptHire == <<"H","i","r","e">>

\* DetectionRequest.prompt: any text of at least one character
Prompts == {PromptBankLaw, PromptWeather, PromptInvest, PromptDoctor, PromptHire}

(***************************************************************************)
(* services.py: the keyword fallback.                                      *)
(***************************************************************************)
RECURSIVE KeywordLoop(_, _, _, _, _)
\* the for loop of _keyword_match from the i-th enabled topic on
KeywordLoop(lowered, enabled, fast_mode, i, detected) ==
    IF i > Len(enabled)
    THEN detected
    ELSE LET topic == enabled[i]
             hints == keyword_hints(topic)
         IN IF \E k \in 1..Len(hints) : Contains(hints[k], lowered)
            THEN IF fast_mode
                 THEN Append(detected, topic)
                 ELSE KeywordLoop(lowered, enabled, fast_mode, i + 1, Append(detected, topic))
            ELSE KeywordLoop(lowered, enabled, fast_mode, i + 1, detected)

\* the loop without the break of fast mode
KeywordMatchNoBreak(prompt, enabled, fast_mode) ==
    KeywordLoop(lower(prompt), enabled, FALSE, 1, <<>>)

_keyword_match(prompt, enabled, fast_mode) ==
    KeywordLoop(lower(prompt), enabled, fast_mode, 1, <<>>)

(***************************************************************************)
(* The remote reply.  kind is "error" (create raised: network error,       *)
(* timeout, non-success status), "no_choices" (a completion without        *)
(* choices), "none" and "empty" (content None or ""), or what json.loads   *)
(* makes of a non-empty content: "not_json" (JSONDecodeError), "too_deep"  *)
(* (nesting beyond the recursion limit: RecursionError), "huge_int" (an    *)
(* integer literal beyond the digit limit: ValueError), "json" (a value).  *)
(* top is the type of the value; for an object, has says whether it has a  *)
(* detected_topics key and dt is that key's value.  A value's items are    *)
(* what iterating it yields: a list's elements, an object's keys, a        *)
(* string's characters.                                                    *)
(***************************************************************************)
NoValue == [t |-> "", items |-> <<>>]

NoReply == [kind |-> "", top |-> "", has |-> FALSE, dt |-> NoValue]

Str(s) == [t |-> "str", s |-> s]

Num(s) == [t |-> "num", s |-> s]

\* what a model may put into a list: topic keys, other strings, non-strings
Items == {Str(t) : t \in TopicName} \cup {Str("astrology"), Num("1")}

Keys == {Str("finance"), Str("legal"), Str("astrology")}

SeqsUpTo(S, n) == UNION {[1..k -> S] : k \in 0..n}

Distinct(s) == \A i, j \in 1..Len(s) : i # j => s[i] # s[j]

Chars(text) == [i \in 1..Len(text) |-> Str(text[i])]

Values ==
    {[t |-> "arr", items |-> s] : s \in SeqsUpTo(Items, MaxItems)}
    \cup {[t |-> "obj", items |-> s] : s \in {q \in SeqsUpTo(Keys, MaxItems) : Distinct(q)}}
    \cup {[t |-> "str", items |-> Chars(<<"h","r">>)],
          [t |-> "str", items |-> Chars(<<"l","e","g","a","l">>)]}
    \cup {[t |-> "null", items |-> <<>>], [t |-> "num", items |-> <<>>]}

Reply(kind) == [kind |-> kind, top |-> "", has |-> FALSE, dt |-> NoValue]

JsonReply(top, has, dt) == [kind |-> "json", top |-> top, has |-> has, dt |-> dt]

Replies ==
    {Reply(k) : k \in {"error", "no_choices", "none", "empty", "not_json", "too_deep", "huge_int"}}
    \cup {JsonReply(top, FALSE, NoValue) : top \in {"obj", "arr", "str", "num", "null"}}
    \cup {JsonReply("obj", TRUE, v) : v \in Values}

(***************************************************************************)
(* services.py: _call_llm.  A result is a returned list or a raised        *)
(* exception.                                                              *)
(***************************************************************************)
Return(topics) == [exc |-> "", topics |-> topics]

Raise(exc) == [exc |-> exc, topics |-> <<>>]

\* topic in enabled_topics: list membership by ==, only a string equals a key
InEnabled(item, enabled) == item.t = "str" /\ item.s \in Range(enabled)

\* no filtering
KeepAll(items, enabled) == [i \in 1..Len(items) |-> items[i].s]

\* [topic for topic in topics if topic in enabled_topics]
FilterEnabled(items, enabled) ==
    LET kept == SelectSeq(items, LAMBDA item : InEnabled(item, enabled))
    IN [i \in 1..Len(kept) |-> kept[i].s]

\* the body of the second try: json.loads, payload.get, the comprehension
ParsePayload(reply, enabled) ==
    CASE reply.kind = "not_json" -> Raise("JSONDecodeError")
      [] reply.kind = "too_deep" -> Raise("RecursionError")
      [] reply.kind = "huge_int" -> Raise("ValueError")
      [] OTHER ->
           IF reply.top # "obj"
           THEN Raise("AttributeError")
           ELSE LET topics == IF reply.has THEN reply.dt ELSE [t |-> "arr", items |-> <<>>]
                IN IF topics.t \in {"null", "num"}
                   THEN Raise("TypeError")
                   ELSE Return(FilterEnabled(topics.items, enabled))

\* except (json.JSONDecodeError, AttributeError, TypeError)
ParseCaught == {"JSONDecodeError", "AttributeError", "TypeError"}

\* _call_llm from the completion on
ParseCompletion(reply, enabled) ==
    IF reply.kind \in {"no_choices", "none", "empty"}
    THEN Return(<<>>)
    ELSE LET r == ParsePayload(reply, enabled)
         IN IF r.exc \in ParseCaught THEN Return(<<>>) ELSE r

\* The client the service is built with: DetectionService takes an
\* AsyncOpenAI, lifespan builds an OpenAI.  create() of an OpenAI returns the
\* completion itself, and awaiting it raises TypeError inside the first try.
ClientKinds == {"OpenAI", "AsyncOpenAI"}

StartupClient == "OpenAI"

\* await self._client.chat.completions.create(...) under try/except Exception
_call_llm(kind, reply, enabled) ==
    IF reply.kind = "error"
    THEN Return(<<>>)
    ELSE IF kind = "OpenAI"
         THEN Return(<<>>)
         ELSE ParseCompletion(reply, enabled)

(***************************************************************************)
(* services.py: detect, from the result of _call_llm on.                   *)
(***************************************************************************)
\* no truncation
Untruncated(llm_topics) == llm_topics

\* llm_topics[:1]
FastTruncate(llm_topics) == SubSeq(llm_topics, 1, 1)

\* the fallback is consulted when llm_topics is empty
UsesFallback(llm_topics) == llm_topics = <<>>

detect_tail(prompt, enabled, fast_mode, llm_topics) ==
    IF ~UsesFallback(llm_topics)
    THEN IF fast_mode THEN FastTruncate(llm_topics) ELSE llm_topics
    ELSE _keyword_match(prompt, enabled, fast_mode)

(***************************************************************************)
(* The audit store of main.py (AuditLogStore(max_entries=...)): a bounded  *)
(* deque, oldest entry first, behind a lock.  A handler awaits append and  *)
(* list: the call is a suspension point, and the access under the lock is  *)
(* one atomic step, so that accesses exclude each other.  The order in     *)
(* which suspended appends go on is not fixed.                             *)
(***************************************************************************)
AuditLogEntry(timestamp, route, prompt, topics) ==
    [timestamp |-> timestamp, route |-> route, prompt |-> prompt, detected_topics |-> topics]

NoEntry == AuditLogEntry(0, "", <<>>, <<>>)

\* a full store refuses the new entry
DropNewest(held, entry) ==
    IF Len(held) >= MaxEntries THEN held ELSE Append(held, entry)

\* AuditLogStore.append: insert at the most-recent end, evict the oldest
deque_append(held, entry) ==
    LET grown == Append(held, entry)
    IN IF Len(grown) > MaxEntries THEN Tail(grown) ELSE grown

\* AuditLogStore.list: the retained entries, most recent first
list(held) == [i \in 1..Len(held) |-> held[Len(held) + 1 - i]]

(***************************************************************************)
(* State.                                                                  *)
(***************************************************************************)
VARIABLES
    client,       \* the client app.state.detection_service was built with
    now,          \* the wall clock, datetime.now(timezone.utc)
    req,          \* the requests: each handler's position and locals
    entries,      \* app.state.audit_log: the retained entries, oldest first
    appended,     \* history: every entry appended, with its request, in order
    logs_result   \* the body of the last GET /logs response

vars == <<client, now, req, entries, appended, logs_result>>

Requests == 1..MaxRequests

AllEnabled == [health |-> TRUE, finance |-> TRUE, legal |-> TRUE, hr |-> TRUE]

AllDisabled == [health |-> FALSE, finance |-> FALSE, legal |-> FALSE, hr |-> FALSE]

\* pc: "idle" (not received), "llm" (awaiting the remote call), "append"
\* (awaiting audit_log.append), "responded", "failed" (the handler raised)
IdleRequest ==
    [pc |-> "idle", endpoint |-> "", route |-> "", fast_mode |-> FALSE,
     prompt |-> <<>>, settings |-> AllEnabled, reply |-> NoReply,
     llm_calls |-> 0, kw_calls |-> 0, llm_topics |-> <<>>, topics |-> <<>>,
     entry |-> NoEntry, response |-> <<>>, failed_in |-> ""]

Init ==
    /\ client \in ClientKinds
    /\ now = 0
    /\ req = [r \in Requests |-> IdleRequest]
    /\ entries = <<>>
    /\ appended = <<>>
    /\ logs_result = <<>>

(***************************************************************************)
(* routers/detection.py: the handlers.                                     *)
(***************************************************************************)
\* the entry is built from the classifier's list
EntryOfLlmTopics(q, timestamp) ==
    AuditLogEntry(timestamp, q.route, q.prompt, q.llm_topics)

\* AuditLogEntry(timestamp=datetime.now(timezone.utc), route=..., prompt=payload.prompt,
\* detected_topics=topics)
EntryOf(q, timestamp) ==
    AuditLogEntry(timestamp, q.route, q.prompt, q.topics)

\* the remote call is issued whatever is enabled
NeverShortCircuit(enabled) == FALSE

\* if not enabled_topics: return []
ShortCircuit(enabled) == enabled = <<>>

\* the handler from the return of service.detect to the await of append
CallAppend(q) == [q EXCEPT !.pc = "append", !.entry = EntryOf(q, now)]

\* detect from the outcome of the remote call on, then the handler
AfterRemote(q, reply) ==
    LET enabled == enabled_topics(q.settings)
        res == _call_llm(client, reply, enabled)
    IN IF res.exc # ""
       THEN [q EXCEPT !.pc = "failed", !.failed_in = "detect", !.reply = reply]
       ELSE CallAppend([q EXCEPT !.reply = reply,
                                 !.llm_topics = res.topics,
                                 !.kw_calls = IF UsesFallback(res.topics) THEN 1 ELSE 0,
                                 !.topics = detect_tail(q.prompt, enabled, q.fast_mode, res.topics)])

\* a handler from the request to its first suspension.  With an OpenAI
\* client create() blocks and the handler runs on to the append.
Handle(r, endpoint, route, fast_mode, prompts, settingses, replies) ==
    /\ req[r].pc = "idle"
    /\ \A k \in 1..(r - 1) : req[k].pc # "idle"
    /\ \E prompt \in prompts, settings \in settingses :
          LET q == [req[r] EXCEPT !.endpoint = endpoint, !.route = route,
                                  !.fast_mode = fast_mode, !.prompt = prompt,
                                  !.settings = settings]
              called == [q EXCEPT !.llm_calls = 1]
          IN IF ShortCircuit(enabled_topics(settings))
             THEN req' = [req EXCEPT ![r] = CallAppend(q)]
             ELSE IF client = "AsyncOpenAI"
                  THEN req' = [req EXCEPT ![r] = [called EXCEPT !.pc = "llm"]]
                  ELSE \E reply \in replies :
                          req' = [req EXCEPT ![r] = AfterRemote(called, reply)]
    /\ UNCHANGED <<client, now, entries, appended, logs_result>>

\* POST /detect
detect(r, prompts, settingses, replies) ==
    Handle(r, "/detect", "detect", FALSE, prompts, settingses, replies)

\* POST /protect
protect(r, prompts, settingses, replies) ==
    Handle(r, "/protect", "protect", TRUE, prompts, settingses, replies)

\* the awaited remote call of an AsyncOpenAI client completes
Completion(r, replies) ==
    /\ req[r].pc = "llm"
    /\ \E reply \in replies :
          req' = [req EXCEPT ![r] = AfterRemote(req[r], reply)]
    /\ UNCHANGED <<client, now, entries, appended, logs_result>>

\* AuditLogStore.append under its lock, for request rid (0: no request)
append(rid, entry) ==
    /\ entries' = deque_append(entries, entry)
    /\ appended' = Append(appended, [rid |-> rid, entry |-> entry])

\* the awaited audit_log.append takes the lock, inserts and returns, and the
\* handler returns its response
AppendDone(r) ==
    /\ req[r].pc = "append"
    /\ append(r, req[r].entry)
    /\ req' = [req EXCEPT ![r].pc = "responded", ![r].response = req[r].topics]
    /\ UNCHANGED <<client, now, logs_result>>

\* audit_log.append raises: the handler raises
AppendFails(r) ==
    /\ req[r].pc = "append"
    /\ req' = [req EXCEPT ![r].pc = "failed", ![r].failed_in = "append"]
    /\ UNCHANGED <<client, now, entries, appended, logs_result>>

\* GET /logs
logs ==
    /\ logs_result' = list(entries)
    /\ UNCHANGED <<client, now, req, entries, appended>>

\* time passes
Tick ==
    /\ now < MaxClock
    /\ now' = now + 1
    /\ UNCHANGED <<client, req, entries, appended, logs_result>>

(***************************************************************************)
(* The server under concurrent requests.                                   *)
(***************************************************************************)
ServerPrompts == {PromptBankLaw}

ServerSettings == {AllEnabled, AllDisabled}

ServerReplies ==
    {Reply("error"),
     JsonReply("obj", TRUE, [t |-> "arr", items |-> <<Str("legal"), Str("finance")>>])}

Next ==
    \/ \E r \in Requests : detect(r, ServerPrompts, ServerSettings, ServerReplies)
    \/ \E r \in Requests : protect(r, ServerPrompts, ServerSettings, ServerReplies)
    \/ \E r \in Requests : Completion(r, ServerReplies)
    \/ \E r \in Requests : AppendDone(r)
    \/ \E r \in Requests : AppendFails(r)
    \/ logs
    \/ Tick

Spec == Init /\ [][Next]_vars

(***************************************************************************)
(* One request, over every prompt, setting and reply.                      *)
(***************************************************************************)
NextDetect ==
    \/ detect(1, Prompts, DetectionSettings, Replies)
    \/ protect(1, Prompts, DetectionSettings, Replies)
    \/ Completion(1, Replies)
    \/ AppendDone(1)
    \/ AppendFails(1)

SpecDetect == Init /\ [][NextDetect]_vars

(***************************************************************************)
(* The audit store on its own, under any sequence of appends.              *)
(***************************************************************************)
StoreEntries ==
    {AuditLogEntry(0, "detect", PromptHire, <<"hr">>),
     AuditLogEntry(0, "protect", PromptWeather, <<>>),
     AuditLogEntry(1, "detect", PromptInvest, <<"finance">>)}

StoreAppend ==
    /\ Len(appended) < MaxAppends
    /\ \E entry \in StoreEntries : append(0, entry)
    /\ UNCHANGED <<client, now, req, logs_result>>

NextStore ==
    \/ StoreAppend
    \/ logs

SpecStore == Init /\ [][NextStore]_vars

(***************************************************************************)
(* Properties.                                                             *)
(***************************************************************************)
\* the enabled topics of request r, from its flags
EnabledSet(r) == {t \in TopicName : req[r].settings[t]}

\* service.detect returned a list to the handler of request r
Returned(r) ==
    \/ req[r].pc \in {"append", "responded"}
    \/ req[r].pc = "failed" /\ req[r].failed_in = "append"

\* the remote call of request r has had its outcome
Replied(r) == req[r].reply # NoReply

\* the reply is a JSON object whose detected_topics is a list
IsList(reply) ==
    reply.kind = "json" /\ reply.top = "obj" /\ reply.has /\ reply.dt.t = "arr"

\* the strings of a list of items that are in the set E
Filtered(items, E) ==
    LET kept == SelectSeq(items, LAMBDA item : item.t = "str" /\ item.s \in E)
    IN [i \in 1..Len(kept) |-> kept[i].s]

\* C1: every element of the list detect returns is an enabled topic of the
\* request, whatever the prompt, the fast flag and the remote reply.
C1_DetectedSubsetOfEnabled ==
    \A r \in Requests :
        Returned(r) => \A i \in 1..Len(req[r].topics) : req[r].topics[i] \in EnabledSet(r)

\* C1 witness: the reply listed a topic outside the enabled set and detect
\* returned a non-empty list taken from the reply.
C1_Witness ==
    \E r \in Requests :
        /\ Returned(r)
        /\ IsList(req[r].reply)
        /\ \E i \in 1..Len(req[r].reply.dt.items) :
              req[r].reply.dt.items[i].s \notin EnabledSet(r)
        /\ req[r].llm_topics # <<>>
        /\ req[r].topics # <<>>

\* C2: fast-mode detection, as run by POST /protect, returns at most one
\* topic, from the classifier or from the fallback.
C2_FastModeAtMostOne ==
    \A r \in Requests :
        (Returned(r) /\ req[r].endpoint = "/protect") => Len(req[r].topics) <= 1

\* C2 witness: the classifier returned two topics to a /protect request and
\* one was returned.
C2_Witness ==
    \E r \in Requests :
        /\ Returned(r)
        /\ req[r].endpoint = "/protect"
        /\ Len(req[r].llm_topics) >= 2
        /\ Len(req[r].topics) = 1

\* C3: a request with all four topics disabled gets the empty list with no
\* remote call and no keyword fallback, and its handler still goes on to the
\* audit append, whose entry has empty detected_topics.
C3_AllDisabledShortCircuits ==
    \A r \in Requests :
        (req[r].pc # "idle" /\ EnabledSet(r) = {}) =>
            /\ req[r].llm_calls = 0
            /\ req[r].kw_calls = 0
            /\ Returned(r)
            /\ req[r].topics = <<>>
            /\ req[r].entry.detected_topics = <<>>
            /\ req[r].pc = "responded" =>
                  /\ req[r].response = <<>>
                  /\ \E i \in 1..Len(appended) :
                        /\ appended[i].rid = r
                        /\ appended[i].entry.detected_topics = <<>>

\* C3 witness: a request with every topic disabled was answered and its
\* entry is in the store.
C3_Witness ==
    \E r \in Requests :
        /\ req[r].pc = "responded"
        /\ EnabledSet(r) = {}
        /\ \E i \in 1..Len(entries) : entries[i] = req[r].entry

\* the reply is a non-empty list of enabled topics
ValidList(r) ==
    /\ IsList(req[r].reply)
    /\ req[r].reply.dt.items # <<>>
    /\ \A i \in 1..Len(req[r].reply.dt.items) :
          /\ req[r].reply.dt.items[i].t = "str"
          /\ req[r].reply.dt.items[i].s \in EnabledSet(r)

\* what C4 says of request r
ClassifierListReturned(r) ==
    LET given == Filtered(req[r].reply.dt.items, EnabledSet(r))
    IN /\ req[r].kw_calls = 0
       /\ req[r].topics = IF req[r].fast_mode THEN <<given[1]>> ELSE given

\* C4: in the service as wired at startup, a non-empty valid list from the
\* remote classifier is returned as it is (its first element in fast mode)
\* and the keyword fallback is not consulted for that request.
C4_ClassifierListReturnedAtStartup ==
    \A r \in Requests :
        (client = StartupClient /\ Returned(r) /\ Replied(r) /\ ValidList(r))
            => ClassifierListReturned(r)

\* C4 with the client DetectionService is declared to take
C4_ClassifierListReturnedAsync ==
    \A r \in Requests :
        (client = "AsyncOpenAI" /\ Returned(r) /\ Replied(r) /\ ValidList(r))
            => ClassifierListReturned(r)

\* the remote call failed or its reply holds no enabled topic
NoUsableTopics(r) ==
    \/ req[r].reply.kind # "json"
    \/ req[r].reply.top # "obj"
    \/ ~req[r].reply.has
    \/ Filtered(req[r].reply.dt.items, EnabledSet(r)) = <<>>

\* C5: when the remote call fails or yields no usable topics, detect does
\* not raise and returns the keyword fallback's result for the same prompt,
\* enabled topics and fast flag.
C5_DegradesToFallback ==
    \A r \in Requests :
        (Replied(r) /\ NoUsableTopics(r)) =>
            /\ req[r].failed_in # "detect"
            /\ Returned(r)
            /\ req[r].topics =
                  _keyword_match(req[r].prompt, enabled_topics(req[r].settings), req[r].fast_mode)

\* the part of C9 about a detected_topics that is not a list
C9_NonListYieldsEmpty ==
    \A r \in Requests :
        (client = "AsyncOpenAI" /\ Returned(r) /\ req[r].reply.kind = "json"
            /\ req[r].reply.top = "obj" /\ req[r].reply.has /\ req[r].reply.dt.t # "arr")
            => req[r].llm_topics = <<>>

\* C9: for a successful remote reply the classifier returns the empty list,
\* without raising, when the content is absent, empty, not parseable, lacks
\* detected_topics or has a detected_topics that is not a list; otherwise it
\* returns the list's items filtered to the enabled topics.
C9_MalformedReplyYieldsEmpty ==
    \A r \in Requests :
        (client = "AsyncOpenAI" /\ Replied(r) /\ req[r].reply.kind # "error") =>
            /\ req[r].failed_in # "detect"
            /\ Returned(r)
            /\ req[r].llm_topics =
                  IF IsList(req[r].reply)
                  THEN Filtered(req[r].reply.dt.items, EnabledSet(r))
                  ELSE <<>>

\* the catalog topics that are enabled and have a hint in the lower-cased prompt
Hits(prompt, E) ==
    SelectSeq(Catalog,
              LAMBDA t : /\ t \in E
                         /\ \E k \in 1..Len(keyword_hints(t)) :
                               Contains(keyword_hints(t)[k], lower(prompt)))

\* C10: the keyword fallback returns, in catalog order, exactly the enabled
\* topics with a hint in the lower-cased prompt, only the first of them in
\* fast mode; the result is a function of prompt, enabled set and fast flag.
C10_KeywordFallback ==
    \A r \in Requests :
        (Returned(r) /\ req[r].kw_calls = 1) =>
            LET hits == Hits(req[r].prompt, EnabledSet(r))
            IN req[r].topics =
                  IF req[r].fast_mode /\ hits # <<>> THEN <<Head(hits)>> ELSE hits

\* C10 witness: the fallback answered a fast-mode request whose prompt, once
\* lower-cased, holds hints of two enabled topics.
C10_Witness ==
    \E r \in Requests :
        /\ Returned(r)
        /\ req[r].kw_calls = 1
        /\ req[r].fast_mode
        /\ req[r].prompt = PromptBankLaw
        /\ Len(Hits(req[r].prompt, EnabledSet(r))) = 2
        /\ req[r].topics = <<"finance">>

\* the route an endpoint audits as
RouteName(endpoint) == IF endpoint = "/detect" THEN "detect" ELSE "protect"

\* the places of request r's entries in the history
EntriesOf(r) == {i \in 1..Len(appended) : appended[i].rid = r}

\* C6: a request that got a response has exactly one audit entry, appended
\* before the response, with the endpoint's route, the request's prompt and
\* the response's topics; a request whose append failed has failed, with no
\* response and no entry.
C6_AuditedBeforeResponse ==
    \A r \in Requests :
        /\ req[r].pc = "responded" =>
              /\ Cardinality(EntriesOf(r)) = 1
              /\ \A i \in EntriesOf(r) :
                    /\ appended[i].entry.route = RouteName(req[r].endpoint)
                    /\ appended[i].entry.prompt = req[r].prompt
                    /\ appended[i].entry.detected_topics = req[r].response
        /\ req[r].pc # "responded" => EntriesOf(r) = {}
        /\ req[r].failed_in = "append" => req[r].pc = "failed"

\* C6 witness: a /protect request was answered with a topic while the
\* append of a /detect request failed.
C6_Witness ==
    \E r, f \in Requests :
        /\ req[r].pc = "responded"
        /\ req[r].endpoint = "/protect"
        /\ req[r].response # <<>>
        /\ req[f].endpoint = "/detect"
        /\ req[f].failed_in = "append"

\* C7: after k appends the store of capacity N holds the min(k, N) most
\* recently appended entries, and list() returns them most recent first.
C7_BoundedStore ==
    LET k == Len(appended)
        n == IF k < MaxEntries THEN k ELSE MaxEntries
    IN /\ Len(entries) = n
       /\ Len(list(entries)) = n
       /\ \A i \in 1..n : list(entries)[i] = appended[k + 1 - i].entry

\* C7 witness: N + 1 appends of which the first differs from the others,
\* and the first is gone.
C7_Witness ==
    /\ Len(appended) = MaxEntries + 1
    /\ \A i \in 1..Len(entries) : entries[i] # appended[1].entry

\* C8: no entry is appended after an entry that carries a later timestamp.
C8_TimestampsNonDecreasing ==
    \A i, j \in 1..Len(appended) :
        i < j => appended[i].entry.timestamp <= appended[j].entry.timestamp

====
